---- MODULE Spec2Model ----
(***************************************************************************)
(* cb-tumblebug: the vNet creation path of the resource registry           *)
(* (src/core/resource/vnet.go, CreateVNet) and the config store            *)
(* (UpdateConfig / UpdateEnv / GetConfig / CheckConfig).                   *)
(*                                                                         *)
(* Every API request runs on its own task, so the handlers of two tasks    *)
(* interleave at each blocking call (KV store I/O, HTTP to the driver).    *)
(* One action below is one such step of one task: the blocking call        *)
(* together with the local computation that follows it up to the next      *)
(* blocking call or the return.                                            *)
(***************************************************************************)
EXTENDS Naturals, Sequences, FiniteSets, TLC

\* ------------------------------------------------------------------ bounds

\* API calls (CreateVNet or UpdateConfig) started in one behaviour.
MaxCalls == 2

\* The tasks serving API requests.
Tasks == {"t1", "t2"}

\* ------------------------------------------------------------------ inputs

NsIds == {"ns1", "bad ns!"}
UserCidr == "10.0.0.0/16"
DriverCidrs == {"10.0.0.0/16", "172.16.0.0/12"}

\* A well-formed TbVNetReq with the given CspVNetId.
VNetReqOf(cspVNetId) ==
  [Name |-> "vnet1", ConnectionName |-> "conn1", CidrBlock |-> UserCidr,
   SubnetInfoList |-> << [Name |-> "subnet1", IPv4_CIDR |-> "10.0.1.0/24"] >>,
   Description |-> "my vnet", CspVNetId |-> cspVNetId]

\* The calls made: (u, option) for a plain creation, for the registration
\* of a driver-known VPC and for the registration of a CSP VPC; and requests
\* that lack a required field or carry a name outside the charset.
CallInputs ==
  { [u |-> VNetReqOf(""), option |-> ""],
    [u |-> VNetReqOf(""), option |-> "register"],
    [u |-> VNetReqOf("vpc-0a1"), option |-> "register"],
    [u |-> [VNetReqOf("") EXCEPT !.Name = ""], option |-> ""],
    [u |-> [VNetReqOf("") EXCEPT !.Name = "bad name!"], option |-> ""],
    [u |-> [VNetReqOf("") EXCEPT !.ConnectionName = ""], option |-> ""] }

\* The names GenUid hands out, one per call of it, never twice.
UidPool == << "uid-1", "uid-2", "uid-3", "uid-4" >>

\* SpiderSubnetInfo
DriverSubnet1 ==
  [IId |-> [NameId |-> "subnet1", SystemId |-> "subnet-0b1"],
   IPv4_CIDR |-> "10.0.1.0/24"]

\* The subnet lists a driver response may carry.
DriverSubnetLists == { << >>, << DriverSubnet1 >> }

\* SpiderVPCInfo: what the driver may answer to a VPC request.
DriverResponses ==
  { [IId |-> [NameId |-> "spider-vpc-1", SystemId |-> "vpc-0a1"],
     IPv4_CIDR |-> c,
     SubnetInfoList |-> l,
     KeyValueList |-> << >>] : c \in DriverCidrs, l \in DriverSubnetLists }

\* --------------------------------------------------------- pure functions

StrVNet == "vNet"
SpiderRestUrl == "http://localhost:1024/spider"

\* common.CheckString: nil (TRUE) for a non-empty string of the name charset.
CheckString(s) == s \notin {"", "bad ns!", "bad name!"}

\* validate.Struct(u) with TbVNetReqStructLevelValidation: TRUE when valid.
ValidateStruct(req) ==
  /\ req.Name # ""
  /\ req.ConnectionName # ""
  /\ CheckString(req.Name)

\* common.GenResourceKey(nsId, resourceType, id)
GenResourceKey(nsId, resourceType, id) ==
  << "ns", nsId, "resources", resourceType, id >>

\* The key of a subnet, a child of its vNet's key.
GenChildResourceKey(nsId, vNetId, id) ==
  << "ns", nsId, "resources", StrVNet, vNetId, "subnet", id >>

\* The label index key /label/{kind}/{uuid}.
LabelKey(kind, uid) == << "label", kind, uid >>

\* SpiderSubnetReqInfo of a TbSubnetReq (the json round trip keeps the
\* fields of the same name; Name is then set to v.Name).
SpiderSubnetReqInfoOf(v) ==
  [Name |-> v.Name, IPv4_CIDR |-> v.IPv4_CIDR]

RECURSIVE SpiderSubnetList(_)
SpiderSubnetList(list) ==
  IF list = << >> THEN << >>
  ELSE << SpiderSubnetReqInfoOf(Head(list)) >> \o SpiderSubnetList(Tail(list))

\* RequestBodyOf with the tenant's name handed to the driver as the resource
\* name.
RequestBodyOf_TenantName(req, uid) ==
  [ConnectionName |-> req.ConnectionName,
   ReqInfo |-> [Name |-> req.Name,
                IPv4_CIDR |-> req.CidrBlock,
                SubnetInfoList |-> SpiderSubnetList(req.SubnetInfoList),
                CSPId |-> req.CspVNetId]]

\* SpiderVPCReqInfoWrapper built from the request and the new uuid.
RequestBodyOf(req, uid) ==
  [ConnectionName |-> req.ConnectionName,
   ReqInfo |-> [Name |-> uid,
                IPv4_CIDR |-> req.CidrBlock,
                SubnetInfoList |-> SpiderSubnetList(req.SubnetInfoList),
                CSPId |-> req.CspVNetId]]

\* The method and url of the driver call: base, path, and the resource name
\* the path carries ("" when it carries none).
RequestLineOf(req, opt) ==
  IF opt = "register" /\ req.CspVNetId = ""
  THEN [method |-> "GET", base |-> SpiderRestUrl, path |-> "/vpc/", name |-> req.Name]
  ELSE IF opt = "register" /\ req.CspVNetId # ""
  THEN [method |-> "POST", base |-> SpiderRestUrl, path |-> "/regvpc", name |-> ""]
  ELSE [method |-> "POST", base |-> SpiderRestUrl, path |-> "/vpc", name |-> ""]

\* The system label of a registered vNet.
SystemLabelOf(req, opt) ==
  IF opt = "register" /\ req.CspVNetId = ""
  THEN "Registered from CB-Spider resource"
  ELSE IF opt = "register" /\ req.CspVNetId # ""
  THEN "Registered from CSP resource"
  ELSE ""

\* model.TbVNetInfo{}
EmptyVNetInfo ==
  [Id |-> "", Name |-> "", Uuid |-> "", ConnectionName |-> "", CidrBlock |-> "",
   SubnetInfoList |-> << >>, Description |-> "", CspVNetId |-> "",
   CspVNetName |-> "", KeyValueList |-> << >>, AssociatedObjectList |-> << >>,
   SystemLabel |-> ""]

\* ContentOf with the cidrBlock taken from the request, not from the
\* driver's answer.
ContentOf_RequestCidr(req, uid, res, opt) ==
  [Id |-> req.Name,
   Name |-> req.Name,
   Uuid |-> uid,
   ConnectionName |-> req.ConnectionName,
   CidrBlock |-> req.CidrBlock,
   SubnetInfoList |-> << >>,
   Description |-> req.Description,
   CspVNetId |-> res.IId.SystemId,
   CspVNetName |-> res.IId.NameId,
   KeyValueList |-> res.KeyValueList,
   AssociatedObjectList |-> << >>,
   SystemLabel |-> SystemLabelOf(req, opt)]

\* The TbVNetInfo CreateVNet builds from the request and the driver's answer.
ContentOf(req, uid, res, opt) ==
  [Id |-> req.Name,
   Name |-> req.Name,
   Uuid |-> uid,
   ConnectionName |-> req.ConnectionName,
   CidrBlock |-> res.IPv4_CIDR,
   SubnetInfoList |-> << >>,
   Description |-> req.Description,
   CspVNetId |-> res.IId.SystemId,
   CspVNetName |-> res.IId.NameId,
   KeyValueList |-> res.KeyValueList,
   AssociatedObjectList |-> << >>,
   SystemLabel |-> SystemLabelOf(req, opt)]

\* The TbSubnetReq CreateVNet builds from one SpiderSubnetInfo.
TbSubnetReqOf(v) ==
  [Name |-> v.IId.NameId, IdFromCsp |-> v.IId.SystemId, IPv4_CIDR |-> v.IPv4_CIDR]

\* The subnet object CreateSubnet stores: it carries its parent's id.
TbSubnetInfoOf(vNetId, sreq) ==
  [Id |-> sreq.Name, Name |-> sreq.Name, VNetId |-> vNetId,
   IdFromCsp |-> sreq.IdFromCsp, IPv4_CIDR |-> sreq.IPv4_CIDR]

\* The label entry of a resource.
LabelInfoOf(nsId, key) ==
  [ResourceKey |-> key,
   Labels |-> [provider |-> "cb-tumblebug", namespace |-> nsId]]

\* ------------------------------------------------------------------- state

VARIABLES
  kv,          \* kvstore: key -> value, for the keys that exist
  uidCount,    \* how many uids GenUid has handed out
  ncalls,      \* API calls started
  pc,          \* each task's position
  nsIdArg,     \* CreateVNet's nsId
  u,           \* CreateVNet's u
  option,      \* CreateVNet's option
  chk,         \* CreateVNet's check, err of CheckResource ("unset" before)
  uuid,        \* CreateVNet's uuid
  callResult,  \* CreateVNet's callResult
  content,     \* CreateVNet's content
  subnetIdx,   \* how many of callResult.SubnetInfoList the loop has done
  result,      \* CreateVNet's result (the record read back)
  ret,         \* what the call returned: [val, err], err = "nil" on success
  existed,     \* whether the vNet key existed when the call was made
  sent,        \* the driver requests this call has issued
  puts,        \* the keys this call has written
  CBStore,     \* the config store: key -> ConfigInfo, for the keys that exist
  env,         \* the process variables SPIDER_REST_URL, DRAGONFLY_REST_URL, ...
  cu,          \* UpdateConfig's u
  configInfo   \* UpdateEnv's configInfo

vnetVars ==
  << kv, uidCount, nsIdArg, u, option, chk, uuid, callResult, content,
     subnetIdx, result, existed, sent >>

configVars == << CBStore, env, cu, configInfo >>

vars == << vnetVars, configVars, ncalls, pc, ret, puts >>

NoReq == [Name |-> "", ConnectionName |-> "", CidrBlock |-> "",
          SubnetInfoList |-> << >>, Description |-> "", CspVNetId |-> ""]
NoResponse == [IId |-> [NameId |-> "", SystemId |-> ""], IPv4_CIDR |-> "",
               SubnetInfoList |-> << >>, KeyValueList |-> << >>]
NoCheck == [check |-> FALSE, err |-> FALSE, set |-> FALSE]
NoRet == [val |-> EmptyVNetInfo, err |-> "none"]

\* ConfigInfo{} and ConfigReq{}
EmptyConfigInfo == [Id |-> "", Name |-> "", Value |-> ""]
NoConfigReq == [Name |-> "", Value |-> ""]

\* The config keys UpdateEnv's switch knows.
StrSPIDER_REST_URL == "SPIDER_REST_URL"
StrDRAGONFLY_REST_URL == "DRAGONFLY_REST_URL"
StrDB_URL == "DB_URL"
StrDB_DATABASE == "DB_DATABASE"
StrDB_USER == "DB_USER"
StrDB_PASSWORD == "DB_PASSWORD"
StrAUTOCONTROL_DURATION_MS == "AUTOCONTROL_DURATION_MS"

EnvNames ==
  { StrSPIDER_REST_URL, StrDRAGONFLY_REST_URL, StrDB_URL, StrDB_DATABASE,
    StrDB_USER, StrDB_PASSWORD, StrAUTOCONTROL_DURATION_MS }

\* The process variables before any update.
InitialEnv ==
  (StrSPIDER_REST_URL :> "http://localhost:1024/spider")
  @@ (StrDRAGONFLY_REST_URL :> "http://localhost:9090/dragonfly")
  @@ (StrDB_URL :> "localhost:3306")
  @@ (StrDB_DATABASE :> "cb_tumblebug")
  @@ (StrDB_USER :> "cb_tumblebug")
  @@ (StrDB_PASSWORD :> "cb_tumblebug")
  @@ (StrAUTOCONTROL_DURATION_MS :> "10000")

Init ==
  /\ kv = << >>
  /\ uidCount = 0
  /\ ncalls = 0
  /\ pc = [t \in Tasks |-> "idle"]
  /\ nsIdArg = [t \in Tasks |-> ""]
  /\ u = [t \in Tasks |-> NoReq]
  /\ option = [t \in Tasks |-> ""]
  /\ chk = [t \in Tasks |-> NoCheck]
  /\ uuid = [t \in Tasks |-> ""]
  /\ callResult = [t \in Tasks |-> NoResponse]
  /\ content = [t \in Tasks |-> EmptyVNetInfo]
  /\ subnetIdx = [t \in Tasks |-> 0]
  /\ result = [t \in Tasks |-> EmptyVNetInfo]
  /\ ret = [t \in Tasks |-> NoRet]
  /\ existed = [t \in Tasks |-> FALSE]
  /\ sent = [t \in Tasks |-> << >>]
  /\ puts = [t \in Tasks |-> {}]
  /\ CBStore = << >>
  /\ env = InitialEnv
  /\ cu = [t \in Tasks |-> NoConfigReq]
  /\ configInfo = [t \in Tasks |-> EmptyConfigInfo]

Key(t) == GenResourceKey(nsIdArg[t], StrVNet, u[t].Name)

\* The task returns (val, err).
Return(t, val, err) ==
  /\ pc' = [pc EXCEPT ![t] = "done"]
  /\ ret' = [ret EXCEPT ![t] = [val |-> val, err |-> err]]

\* ------------------------------------------------------------ CreateVNet

\* CreateVNet is called: CheckString(nsId), then validate.Struct(u).
CreateVNet_Begin(t) ==
  /\ pc[t] = "idle"
  /\ ncalls < MaxCalls
  /\ ncalls' = ncalls + 1
  /\ \E nsId \in NsIds, in \in CallInputs :
       /\ nsIdArg' = [nsIdArg EXCEPT ![t] = nsId]
       /\ u' = [u EXCEPT ![t] = in.u]
       /\ option' = [option EXCEPT ![t] = in.option]
       /\ existed' = [existed EXCEPT ![t] =
                        GenResourceKey(nsId, StrVNet, in.u.Name) \in DOMAIN kv]
       /\ IF ~CheckString(nsId)
          THEN Return(t, EmptyVNetInfo, "invalid nsId")
          ELSE IF ~ValidateStruct(in.u)
          THEN Return(t, EmptyVNetInfo, "validation")
          ELSE /\ pc' = [pc EXCEPT ![t] = "CheckResource"]
               /\ UNCHANGED ret
  /\ UNCHANGED << kv, uidCount, chk, uuid, callResult, content, subnetIdx,
                  result, sent, puts, configVars >>

\* The call has returned: its frame is gone and the task is free again.
CreateVNet_Return(t) ==
  /\ pc[t] = "done"
  /\ pc' = [pc EXCEPT ![t] = "idle"]
  /\ nsIdArg' = [nsIdArg EXCEPT ![t] = ""]
  /\ u' = [u EXCEPT ![t] = NoReq]
  /\ option' = [option EXCEPT ![t] = ""]
  /\ chk' = [chk EXCEPT ![t] = NoCheck]
  /\ uuid' = [uuid EXCEPT ![t] = ""]
  /\ callResult' = [callResult EXCEPT ![t] = NoResponse]
  /\ content' = [content EXCEPT ![t] = EmptyVNetInfo]
  /\ subnetIdx' = [subnetIdx EXCEPT ![t] = 0]
  /\ result' = [result EXCEPT ![t] = EmptyVNetInfo]
  /\ ret' = [ret EXCEPT ![t] = NoRet]
  /\ existed' = [existed EXCEPT ![t] = FALSE]
  /\ sent' = [sent EXCEPT ![t] = << >>]
  /\ puts' = [puts EXCEPT ![t] = {}]
  /\ UNCHANGED << kv, uidCount, ncalls, configVars >>

\* check, err := CheckResource(nsId, resourceType, id): (TRUE, nil) when
\* the key exists, (FALSE, nil) when it does not, (FALSE, err) when the
\* store cannot be read.
CheckResourceOutcomes(nsId, resourceType, id) ==
  { [check |-> GenResourceKey(nsId, resourceType, id) \in DOMAIN kv,
     err |-> FALSE, set |-> TRUE],
    [check |-> FALSE, err |-> TRUE, set |-> TRUE] }

\* CreateVNet_CheckResource without the return on check = true.
CreateVNet_CheckResource_NoExistsReturn(t) ==
  /\ pc[t] = "CheckResource"
  /\ \E o \in CheckResourceOutcomes(nsIdArg[t], StrVNet, u[t].Name) :
       /\ chk' = [chk EXCEPT ![t] = o]
       /\ IF o.err
          THEN /\ Return(t, EmptyVNetInfo, "failed to check")
               /\ UNCHANGED << uuid, uidCount >>
          ELSE /\ uidCount' = uidCount + 1
               /\ uuid' = [uuid EXCEPT ![t] = UidPool[uidCount + 1]]
               /\ pc' = [pc EXCEPT ![t] = "ExecuteHttpRequest"]
               /\ UNCHANGED ret
  /\ UNCHANGED << kv, ncalls, nsIdArg, u, option, callResult, content,
                  subnetIdx, result, existed, sent, puts, configVars >>

\* CreateVNet_CheckResource without the return on err != nil.
CreateVNet_CheckResource_NoErrReturn(t) ==
  /\ pc[t] = "CheckResource"
  /\ \E o \in CheckResourceOutcomes(nsIdArg[t], StrVNet, u[t].Name) :
       /\ chk' = [chk EXCEPT ![t] = o]
       /\ IF o.check
          THEN /\ Return(t, EmptyVNetInfo, "already exists")
               /\ UNCHANGED << uuid, uidCount >>
          ELSE /\ uidCount' = uidCount + 1
               /\ uuid' = [uuid EXCEPT ![t] = UidPool[uidCount + 1]]
               /\ pc' = [pc EXCEPT ![t] = "ExecuteHttpRequest"]
               /\ UNCHANGED ret
  /\ UNCHANGED << kv, ncalls, nsIdArg, u, option, callResult, content,
                  subnetIdx, result, existed, sent, puts, configVars >>

\* The existence check and what follows it up to the driver call: the two
\* error returns, else GenUid.
CreateVNet_CheckResource(t) ==
  /\ pc[t] = "CheckResource"
  /\ \E o \in CheckResourceOutcomes(nsIdArg[t], StrVNet, u[t].Name) :
       /\ chk' = [chk EXCEPT ![t] = o]
       /\ IF o.check
          THEN /\ Return(t, EmptyVNetInfo, "already exists")
               /\ UNCHANGED << uuid, uidCount >>
          ELSE IF o.err
          THEN /\ Return(t, EmptyVNetInfo, "failed to check")
               /\ UNCHANGED << uuid, uidCount >>
          ELSE /\ uidCount' = uidCount + 1
               /\ uuid' = [uuid EXCEPT ![t] = UidPool[uidCount + 1]]
               /\ pc' = [pc EXCEPT ![t] = "ExecuteHttpRequest"]
               /\ UNCHANGED ret
  /\ UNCHANGED << kv, ncalls, nsIdArg, u, option, callResult, content,
                  subnetIdx, result, existed, sent, puts, configVars >>

\* The driver request CreateVNet sends.
DriverRequestOf(req, uid, opt) ==
  [line |-> RequestLineOf(req, opt), body |-> RequestBodyOf(req, uid)]

\* CreateVNet_ExecuteHttpRequest without the return on err != nil: the
\* empty callResult is used.
CreateVNet_ExecuteHttpRequest_NoErrReturn(t) ==
  /\ pc[t] = "ExecuteHttpRequest"
  /\ sent' = [sent EXCEPT ![t] =
                Append(@, DriverRequestOf(u[t], uuid[t], option[t]))]
  /\ \E res \in DriverResponses \cup {NoResponse} :
       /\ callResult' = [callResult EXCEPT ![t] = res]
       /\ content' = [content EXCEPT ![t] =
                        ContentOf(u[t], uuid[t], res, option[t])]
       /\ pc' = [pc EXCEPT ![t] = "Put"]
       /\ UNCHANGED ret
  /\ UNCHANGED << kv, uidCount, ncalls, nsIdArg, u, option, chk, uuid,
                  subnetIdx, result, existed, puts, configVars >>

\* common.ExecuteHttpRequest: the driver call, its error return, else the
\* building of content.
CreateVNet_ExecuteHttpRequest(t) ==
  /\ pc[t] = "ExecuteHttpRequest"
  /\ sent' = [sent EXCEPT ![t] =
                Append(@, DriverRequestOf(u[t], uuid[t], option[t]))]
  /\ \/ /\ Return(t, EmptyVNetInfo, "driver error")
        /\ UNCHANGED << callResult, content >>
     \/ \E res \in DriverResponses :
          /\ callResult' = [callResult EXCEPT ![t] = res]
          /\ content' = [content EXCEPT ![t] =
                           ContentOf(u[t], uuid[t], res, option[t])]
          /\ pc' = [pc EXCEPT ![t] = "Put"]
          /\ UNCHANGED ret
  /\ UNCHANGED << kv, uidCount, ncalls, nsIdArg, u, option, chk, uuid,
                  subnetIdx, result, existed, puts, configVars >>

\* kvstore.Put(Key, Val), and its error return.
CreateVNet_Put(t) ==
  /\ pc[t] = "Put"
  /\ \/ /\ Return(t, content[t], "put failed")
        /\ UNCHANGED << kv, puts >>
     \/ /\ kv' = (Key(t) :> content[t]) @@ kv
        /\ puts' = [puts EXCEPT ![t] = @ \cup {Key(t)}]
        /\ pc' = [pc EXCEPT ![t] = "CreateSubnet"]
        /\ UNCHANGED ret
  /\ UNCHANGED << uidCount, ncalls, nsIdArg, u, option, chk, uuid, callResult,
                  content, subnetIdx, result, existed, sent, configVars >>

\* CreateSubnet(nsId, vNetId, req, objectOnly = true) when it succeeds: the
\* store with the subnet as a child of the vNet, the vNet's id in it, and
\* listed in the vNet.
CreateSubnetStore(store, nsId, vNetId, sreq) ==
  LET parent == GenResourceKey(nsId, StrVNet, vNetId)
      info == TbSubnetInfoOf(vNetId, sreq)
  IN  (GenChildResourceKey(nsId, vNetId, sreq.Name) :> info)
      @@ (parent :> [store[parent] EXCEPT
                       !.SubnetInfoList = Append(@, info)])
      @@ store

\* One turn of the loop over callResult.SubnetInfoList: CreateSubnet, whose
\* error is logged and dropped.
CreateVNet_CreateSubnet(t) ==
  /\ pc[t] = "CreateSubnet"
  /\ subnetIdx[t] < Len(callResult[t].SubnetInfoList)
  /\ LET v == callResult[t].SubnetInfoList[subnetIdx[t] + 1]
         sreq == TbSubnetReqOf(v)
     IN  \/ /\ Key(t) \in DOMAIN kv
            /\ kv' = CreateSubnetStore(kv, nsIdArg[t], content[t].Id, sreq)
            /\ puts' = [puts EXCEPT ![t] = @ \cup
                          {GenChildResourceKey(nsIdArg[t], content[t].Id, sreq.Name)}]
         \/ UNCHANGED << kv, puts >>
  /\ subnetIdx' = [subnetIdx EXCEPT ![t] = @ + 1]
  /\ UNCHANGED << uidCount, ncalls, pc, nsIdArg, u, option, chk, uuid,
                  callResult, content, result, ret, existed, sent, configVars >>

\* keyValue, err := kvstore.GetKv(Key) after the loop: the error is logged
\* and dropped, and result is then the empty TbVNetInfo.
CreateVNet_GetKv(t) ==
  /\ pc[t] = "CreateSubnet"
  /\ subnetIdx[t] = Len(callResult[t].SubnetInfoList)
  /\ \/ result' = [result EXCEPT ![t] = EmptyVNetInfo]
     \/ /\ Key(t) \in DOMAIN kv
        /\ result' = [result EXCEPT ![t] = kv[Key(t)]]
  /\ pc' = [pc EXCEPT ![t] = "CreateOrUpdateLabel"]
  /\ UNCHANGED << kv, uidCount, ncalls, nsIdArg, u, option, chk, uuid,
                  callResult, content, subnetIdx, ret, existed, sent, puts,
                  configVars >>

\* CreateVNet_CreateOrUpdateLabel with the label error logged and dropped,
\* as the errors of CreateSubnet and GetKv are.
CreateVNet_CreateOrUpdateLabel_NoErrReturn(t) ==
  /\ pc[t] = "CreateOrUpdateLabel"
  /\ \/ /\ Return(t, result[t], "nil")
        /\ UNCHANGED << kv, puts >>
     \/ /\ kv' = (LabelKey(StrVNet, uuid[t]) :> LabelInfoOf(nsIdArg[t], Key(t))) @@ kv
        /\ puts' = [puts EXCEPT ![t] = @ \cup {LabelKey(StrVNet, uuid[t])}]
        /\ Return(t, result[t], "nil")
  /\ UNCHANGED << uidCount, ncalls, nsIdArg, u, option, chk, uuid, callResult,
                  content, subnetIdx, result, existed, sent, configVars >>

\* label.CreateOrUpdateLabel(StrVNet, uuid, Key, labels), its error return,
\* else the return of result.
CreateVNet_CreateOrUpdateLabel(t) ==
  /\ pc[t] = "CreateOrUpdateLabel"
  /\ \/ /\ Return(t, content[t], "label failed")
        /\ UNCHANGED << kv, puts >>
     \/ /\ kv' = (LabelKey(StrVNet, uuid[t]) :> LabelInfoOf(nsIdArg[t], Key(t))) @@ kv
        /\ puts' = [puts EXCEPT ![t] = @ \cup {LabelKey(StrVNet, uuid[t])}]
        /\ Return(t, result[t], "nil")
  /\ UNCHANGED << uidCount, ncalls, nsIdArg, u, option, chk, uuid, callResult,
                  content, subnetIdx, result, existed, sent, configVars >>

CreateVNet(t) ==
  \/ CreateVNet_Begin(t)
  \/ CreateVNet_CheckResource(t)
  \/ CreateVNet_ExecuteHttpRequest(t)
  \/ CreateVNet_Put(t)
  \/ CreateVNet_CreateSubnet(t)
  \/ CreateVNet_GetKv(t)
  \/ CreateVNet_CreateOrUpdateLabel(t)
  \/ CreateVNet_Return(t)

Next == \E t \in Tasks : CreateVNet(t)

Spec == Init /\ [][Next]_vars

\* ---------------------------------------------------------- UpdateConfig

\* The config names and values the calls carry: the names UpdateEnv knows,
\* one it does not know, and the empty name.
ConfigNames == EnvNames \cup {"LOG_LEVEL", ""}
ConfigValues == {"http://x:1", "http://y:2"}

ConfigKey(id) == << "config", id >>

\* UpdateConfig is called: content is built and CBStore.Put(key, val) made;
\* its error is returned.
UpdateConfig_Put(t) ==
  /\ pc[t] = "idle"
  /\ ncalls < MaxCalls
  /\ ncalls' = ncalls + 1
  /\ \E name \in ConfigNames, value \in ConfigValues :
       LET c == [Id |-> name, Name |-> name, Value |-> value]
       IN  /\ cu' = [cu EXCEPT ![t] = [Name |-> name, Value |-> value]]
           /\ \/ /\ Return(t, c, "put failed")
                 /\ UNCHANGED << CBStore, puts >>
              \/ /\ CBStore' = (ConfigKey(name) :> c) @@ CBStore
                 /\ puts' = [puts EXCEPT ![t] = @ \cup {ConfigKey(name)}]
                 /\ pc' = [pc EXCEPT ![t] = "Get"]
                 /\ UNCHANGED ret
  /\ UNCHANGED << vnetVars, env, configInfo >>

\* The ConfigInfo UpdateConfig returns.
ConfigContent(t) == [Id |-> cu[t].Name, Name |-> cu[t].Name, Value |-> cu[t].Value]

\* keyValue, _ := CBStore.Get(key), then keyValue.Key is printed: a failed
\* Get leaves keyValue nil and the task panics.
UpdateConfig_Get(t) ==
  /\ pc[t] = "Get"
  /\ \/ Return(t, EmptyConfigInfo, "panic")
     \/ /\ ConfigKey(cu[t].Name) \in DOMAIN CBStore
        /\ pc' = [pc EXCEPT ![t] = "CheckConfig"]
        /\ UNCHANGED ret
  /\ UNCHANGED << vnetVars, configVars, ncalls, puts >>

\* UpdateEnv(id) -> GetConfig(id) -> CheckConfig(id): FALSE for the empty id
\* and when the Get yields nothing; GetConfig and UpdateEnv then return an
\* error, which UpdateConfig drops.
UpdateEnv_CheckConfig(t) ==
  /\ pc[t] = "CheckConfig"
  /\ \/ Return(t, ConfigContent(t), "nil")
     \/ /\ cu[t].Name # ""
        /\ ConfigKey(cu[t].Name) \in DOMAIN CBStore
        /\ pc' = [pc EXCEPT ![t] = "GetConfig"]
        /\ UNCHANGED ret
  /\ UNCHANGED << vnetVars, configVars, ncalls, puts >>

\* GetConfig's CBStore.Get(key) and Unmarshal: configInfo, or an error that
\* UpdateEnv returns and UpdateConfig drops.
UpdateEnv_GetConfig(t) ==
  /\ pc[t] = "GetConfig"
  /\ \/ /\ Return(t, ConfigContent(t), "nil")
        /\ UNCHANGED configInfo
     \/ /\ ConfigKey(cu[t].Name) \in DOMAIN CBStore
        /\ configInfo' = [configInfo EXCEPT ![t] = CBStore[ConfigKey(cu[t].Name)]]
        /\ pc' = [pc EXCEPT ![t] = "switch"]
        /\ UNCHANGED ret
  /\ UNCHANGED << vnetVars, CBStore, env, cu, ncalls, puts >>

\* UpdateEnv's switch: the process variable of a known id is set to
\* configInfo.Value; then UpdateConfig returns (content, nil).
EnvAfterSwitch(e, id, value) ==
  IF id \in EnvNames THEN [e EXCEPT ![id] = value] ELSE e

UpdateEnv_Switch(t) ==
  /\ pc[t] = "switch"
  /\ env' = EnvAfterSwitch(env, cu[t].Name, configInfo[t].Value)
  /\ Return(t, ConfigContent(t), "nil")
  /\ UNCHANGED << vnetVars, CBStore, cu, configInfo, ncalls, puts >>

\* The call has returned: its frame is gone and the task is free again.
UpdateConfig_Return(t) ==
  /\ pc[t] = "done"
  /\ pc' = [pc EXCEPT ![t] = "idle"]
  /\ ret' = [ret EXCEPT ![t] = NoRet]
  /\ cu' = [cu EXCEPT ![t] = NoConfigReq]
  /\ configInfo' = [configInfo EXCEPT ![t] = EmptyConfigInfo]
  /\ puts' = [puts EXCEPT ![t] = {}]
  /\ UNCHANGED << vnetVars, CBStore, env, ncalls >>

\* GetConfig(id) on the current store: the stored ConfigInfo, or none.
GetConfig(id) ==
  IF id # "" /\ ConfigKey(id) \in DOMAIN CBStore
  THEN [ok |-> TRUE, info |-> CBStore[ConfigKey(id)]]
  ELSE [ok |-> FALSE, info |-> EmptyConfigInfo]

\* ListConfig() on the current store.
ListConfig == { CBStore[k] : k \in DOMAIN CBStore }

UpdateConfig(t) ==
  \/ UpdateConfig_Put(t)
  \/ UpdateConfig_Get(t)
  \/ UpdateEnv_CheckConfig(t)
  \/ UpdateEnv_GetConfig(t)
  \/ UpdateEnv_Switch(t)
  \/ UpdateConfig_Return(t)

NextConfig == \E t \in Tasks : UpdateConfig(t)

SpecConfig == Init /\ [][NextConfig]_vars

\* ------------------------------------------------------------ properties

Done(t) == pc[t] = "done"

\* The driver request the call of task t issued.
Sent(t) == sent[t][1]

\* C1 as stated: a CreateVNet called when the vNet's key already exists
\* returns 'already exists', issues no driver call and writes nothing.
C1_ExistingAlwaysAlreadyExists ==
  \A t \in Tasks :
    Done(t) /\ existed[t] =>
      /\ ret[t].err = "already exists"
      /\ sent[t] = << >>
      /\ puts[t] = {}

\* C1 amended: a CreateVNet called when the vNet's key already exists
\* returns an error, issues no driver call and writes nothing, at any point
\* of the call; the error is 'already exists' when the request passes
\* validation and the existence check itself succeeds, a validation error
\* when it does not pass, and 'failed to check' when the check fails.
C1_ExistingRejectedUnchanged ==
  \A t \in Tasks :
    existed[t] =>
      /\ sent[t] = << >>
      /\ puts[t] = {}
      /\ Done(t) =>
           /\ ret[t].err \in {"validation", "already exists", "failed to check"}
           /\ ret[t].err = "validation" <=> ~ValidateStruct(u[t])
           /\ ret[t].err = "failed to check" <=> chk[t].err
           /\ ret[t].val = EmptyVNetInfo

C1_Witness ==
  \E t \in Tasks :
    /\ Done(t)
    /\ existed[t]
    /\ Key(t) \in DOMAIN kv
    /\ ret[t].err = "already exists"

\* C2: when the driver call fails (a request was sent and no response
\* decoded), CreateVNet returns the driver's error and the call writes no
\* key, neither vNet nor subnet nor label: only a call holding a driver
\* response goes on to the store.
C2_DriverFailurePersistsNothing ==
  \A t \in Tasks :
    /\ puts[t] # {} => callResult[t] \in DriverResponses
    /\ pc[t] \in {"Put", "CreateSubnet", "CreateOrUpdateLabel"} =>
         callResult[t] \in DriverResponses
    /\ Done(t) /\ sent[t] # << >> /\ callResult[t] = NoResponse =>
         /\ ret[t].err = "driver error"
         /\ ret[t].val = EmptyVNetInfo
         /\ puts[t] = {}

C2_Witness ==
  \E t \in Tasks :
    /\ Done(t)
    /\ sent[t] # << >>
    /\ callResult[t] = NoResponse
    /\ ret[t].err = "driver error"
    /\ ret[t].val = EmptyVNetInfo
    /\ puts[t] = {}

\* The call of task t is past its existence check and has not returned.
InCreateSequence(t) ==
  pc[t] \in {"ExecuteHttpRequest", "Put", "CreateSubnet", "CreateOrUpdateLabel"}

\* C3: the check / driver call / persist sequences of two CreateVNet calls
\* with the same (nsId, Name) never overlap, and of two such concurrent
\* calls at most one issues a driver request.
C3_SameKeySerialized ==
  \A t1, t2 \in Tasks :
    t1 # t2 /\ pc[t1] \notin {"idle"} /\ pc[t2] \notin {"idle"}
      /\ Key(t1) = Key(t2) =>
        /\ ~(InCreateSequence(t1) /\ InCreateSequence(t2))
        /\ ~(sent[t1] # << >> /\ sent[t2] # << >>)

\* C4 as stated: after a successful CreateVNet the record stored and the
\* record returned have id = x.Name and the caller's name, connectionName,
\* cidrBlock and description.
C4_AllUserFieldsEcho ==
  \A t \in Tasks :
    Done(t) /\ ret[t].err = "nil" =>
      /\ Key(t) \in DOMAIN kv
      /\ \A r \in {kv[Key(t)], ret[t].val} :
           /\ r.Id = u[t].Name
           /\ r.Name = u[t].Name
           /\ r.ConnectionName = u[t].ConnectionName
           /\ r.CidrBlock = u[t].CidrBlock
           /\ r.Description = u[t].Description

\* C4 amended: the record CreateVNet stores has id = x.Name and the caller's
\* name, connectionName and description, and its cidrBlock is the IPv4_CIDR
\* of the driver's response, whatever the caller's cidrBlock; the record a
\* successful call returns is empty or has id = name = x.Name.
C4_StoredEchoesDriverCidr ==
  [][\A t \in Tasks :
       /\ pc[t] = "Put" /\ pc'[t] = "CreateSubnet" =>
            /\ Key(t) \in DOMAIN kv'
            /\ kv'[Key(t)].Id = u[t].Name
            /\ kv'[Key(t)].Name = u[t].Name
            /\ kv'[Key(t)].ConnectionName = u[t].ConnectionName
            /\ kv'[Key(t)].Description = u[t].Description
            /\ kv'[Key(t)].CidrBlock = callResult[t].IPv4_CIDR
       /\ pc[t] # "done" /\ pc'[t] = "done" /\ ret'[t].err = "nil" =>
            \/ ret'[t].val = EmptyVNetInfo
            \/ /\ ret'[t].val.Id = u[t].Name
               /\ ret'[t].val.Name = u[t].Name]_vars

C4_Witness ==
  \E t \in Tasks :
    /\ Done(t)
    /\ ret[t].err = "nil"
    /\ ret[t].val.Id = u[t].Name
    /\ ret[t].val.Description = u[t].Description
    /\ ret[t].val.CidrBlock = callResult[t].IPv4_CIDR
    /\ ret[t].val.CidrBlock # u[t].CidrBlock

\* The label entry of task t's vNet is in the store and names the vNet's key.
Labelled(t) ==
  /\ LabelKey(StrVNet, uuid[t]) \in DOMAIN kv
  /\ kv[LabelKey(StrVNet, uuid[t])].ResourceKey = Key(t)

\* C7 as stated: once a CreateVNet that persisted a vNet has returned, the
\* label entry /label/vNet/{uuid} exists and names the vNet's key.
C7_PersistedAlwaysLabelled ==
  \A t \in Tasks :
    Done(t) /\ Key(t) \in puts[t] => Labelled(t)

\* C7 amended: once a CreateVNet has returned success, the label entry
\* /label/vNet/{uuid} exists and names the vNet's key; a call that persisted
\* a vNet and wrote no label entry has returned the label write's error.
C7_SuccessLabelled ==
  \A t \in Tasks :
    /\ Done(t) /\ ret[t].err = "nil" => Key(t) \in puts[t] /\ Labelled(t)
    /\ Done(t) /\ Key(t) \in puts[t] /\ ~Labelled(t) => ret[t].err = "label failed"

C7_Witness ==
  \E t \in Tasks :
    /\ Done(t)
    /\ ret[t].err = "nil"
    /\ Key(t) \in puts[t]
    /\ Labelled(t)

\* C8 as stated: every driver request of CreateVNet names the resource by
\* the uuid and never carries the tenant's name, and the stored vNet holds
\* the name the driver returned.
C8_NeverTenantName ==
  \A t \in Tasks :
    sent[t] # << >> =>
      /\ Sent(t).body.ReqInfo.Name = uuid[t]
      /\ Sent(t).line.name # u[t].Name
      /\ Key(t) \in puts[t] => content[t].CspVNetName = callResult[t].IId.NameId

\* The names task t's driver request carries, where it carries them.
RequestNamesAsCoded(t) ==
  /\ Sent(t).body.ReqInfo.Name = uuid[t]
  /\ uuid[t] # u[t].Name
  /\ IF option[t] = "register" /\ u[t].CspVNetId = ""
     THEN Sent(t).line.name = u[t].Name /\ Sent(t).line.method = "GET"
     ELSE Sent(t).line.name = "" /\ Sent(t).line.method = "POST"

\* C8 amended: the request body of every driver request of CreateVNet names
\* the resource by the uuid; the url carries the tenant's name exactly when
\* option is 'register' and no CspVNetId is given (GET /vpc/{u.Name}), and
\* no name otherwise; the vNet stored holds the uuid, the tenant's id and
\* the name and id the driver returned.
C8_UuidInBodyTenantNameOnRegisterGet ==
  [][\A t \in Tasks :
       /\ sent'[t] # << >> => RequestNamesAsCoded(t)'
       /\ pc[t] = "Put" /\ pc'[t] = "CreateSubnet" =>
            /\ kv'[Key(t)].Id = u[t].Name
            /\ kv'[Key(t)].Uuid = uuid[t]
            /\ kv'[Key(t)].CspVNetName = callResult[t].IId.NameId
            /\ kv'[Key(t)].CspVNetId = callResult[t].IId.SystemId]_vars

C8_Witness ==
  \E t \in Tasks :
    /\ Key(t) \in puts[t]
    /\ option[t] = "register"
    /\ u[t].CspVNetId = ""
    /\ Sent(t).line.name = u[t].Name
    /\ Sent(t).body.ReqInfo.Name = uuid[t]
    /\ content[t].CspVNetName = "spider-vpc-1"

\* C9: whenever CreateVNet returns success, every subnet of the driver's
\* response is stored as a child of the vNet with the vNet's id in it, and
\* the vNet returned is the stored record, listing those subnets.
C9_SuccessHasAllSubnets ==
  \A t \in Tasks :
    Done(t) /\ ret[t].err = "nil" =>
      /\ \A i \in 1..Len(callResult[t].SubnetInfoList) :
           LET k == GenChildResourceKey(nsIdArg[t], content[t].Id,
                                        callResult[t].SubnetInfoList[i].IId.NameId)
           IN  k \in DOMAIN kv /\ kv[k].VNetId = content[t].Id
      /\ ret[t].val.Id = u[t].Name
      /\ Len(ret[t].val.SubnetInfoList) = Len(callResult[t].SubnetInfoList)

\* One of the checks before the driver call has failed for task t.
PreconditionFailed(t) ==
  \/ ~CheckString(nsIdArg[t])
  \/ ~ValidateStruct(u[t])
  \/ chk[t].check
  \/ chk[t].err

\* C10: a CreateVNet call issues its driver request, and writes to the
\* store, only after the nsId check, the validation and the existence check
\* have passed; when one of them fails, the existence check's own error
\* included, the call returns an error, having sent and written nothing.
C10_ChecksBeforeDriverCall ==
  \A t \in Tasks :
    /\ sent[t] # << >> \/ puts[t] # {} =>
         /\ CheckString(nsIdArg[t])
         /\ ValidateStruct(u[t])
         /\ chk[t].set /\ ~chk[t].check /\ ~chk[t].err
    /\ pc[t] # "idle" /\ PreconditionFailed(t) =>
         /\ Done(t)
         /\ ret[t].err \in {"invalid nsId", "validation", "already exists",
                            "failed to check"}
         /\ ret[t].val = EmptyVNetInfo
         /\ sent[t] = << >>
         /\ puts[t] = {}

C10_Witness ==
  \E t \in Tasks :
    /\ Done(t)
    /\ chk[t].err
    /\ ret[t].err = "failed to check"
    /\ sent[t] = << >>

\* C5: whenever UpdateConfig returns success for a key UpdateEnv knows, the
\* store holds the value under /config/{name}, the process variable of the
\* key equals the value, and GetConfig and ListConfig give the value.
C5_UpdateRefreshesMirror ==
  \A t \in Tasks :
    Done(t) /\ ret[t].err = "nil" /\ cu[t].Name \in EnvNames =>
      /\ GetConfig(cu[t].Name).ok
      /\ GetConfig(cu[t].Name).info.Value = cu[t].Value
      /\ env[cu[t].Name] = cu[t].Value
      /\ ConfigContent(t) \in ListConfig

\* C6: an UpdateConfig call with a key outside the allow-list writes
\* nothing under /config and returns an error.
C6_UnknownKeyRejected ==
  \A t \in Tasks :
    pc[t] # "idle" /\ cu[t].Name \notin EnvNames =>
      /\ puts[t] = {}
      /\ ConfigKey(cu[t].Name) \notin DOMAIN CBStore
      /\ Done(t) => ret[t].err # "nil"

\* The call of task t has returned after doing all three of its steps: the
\* Put, UpdateEnv's read of /config/{key}, and the switch's assignment.
UpdatedAndReturned(t) ==
  /\ Done(t)
  /\ ret[t].err = "nil"
  /\ cu[t].Name \in EnvNames
  /\ configInfo[t] # EmptyConfigInfo

\* C11: once concurrent UpdateConfig calls on one enumerated key have all
\* returned, each having done its Put, its read and its assignment, the
\* process variable of the key equals the value stored at /config/{key}.
C11_MirrorEqualsStoreAfterReturn ==
  \A t1, t2 \in Tasks :
    /\ t1 # t2
    /\ UpdatedAndReturned(t1)
    /\ UpdatedAndReturned(t2)
    /\ cu[t1].Name = cu[t2].Name
    => env[cu[t1].Name] = CBStore[ConfigKey(cu[t1].Name)].Value

====
